---- MODULE Spec2Model ----
(***************************************************************************)
(* WEC (water-energy calculations): month-mode classifier, Greedy and      *)
(* dynamic-programming planners of the yearly volume plan.                 *)
(*                                                                         *)
(* Arithmetic.  The program computes in floating point; the model computes *)
(* exactly, in integers.  Every quantity is an integer number of units:    *)
(*   volume : 0.01 km3 is StepV units;                                     *)
(*   flow   : one volume unit per month, so that the conversion            *)
(*            dV * 1e9 / SECONDS_PER_MONTH of a volume dV is dV itself;    *)
(*   mark   : the same numeric scale as volume (the Greedy planner adds a  *)
(*            level to a volume, greedy.py:135 and :151);                  *)
(*   power  : 8.5 * q * h / 1000 of a flow q and a head h is q * h units.  *)
(* The model curves have even integer slopes, so every interpolation and   *)
(* every 0.5 * (a + b) is exact (ExactDiv fails otherwise).                *)
(* Sequences are 1-based: Python index i is position i + 1.                *)
(***************************************************************************)
EXTENDS Integers, Sequences, FiniteSets, TLC

(***************************************************************************)
(* Bounds of the model.                                                    *)
(***************************************************************************)
\* longest series given to the month selector over all three kinds of month
MaxShortLen == 6

\* longest series given to the month selector (a year is 12 months)
MaxSelLen == 12

\* longest series given to the Greedy planner
MaxGreedyLen == 3

\* most 0.01 km3 steps the discharge sizing loop of one month is followed for
MaxDischargeSteps == 10

RECURSIVE Gcd(_, _)
Gcd(a, b) == IF b = 0 THEN a ELSE Gcd(b, a % b)

RECURSIVE LcmUpTo(_)
LcmUpTo(n) == IF n <= 1 THEN 1 ELSE (LcmUpTo(n - 1) * n) \div Gcd(LcmUpTo(n - 1), n)

\* 0.01 km3 (the volume step of greedy.py:104 and :123) in volume units; a
\* multiple of every possible number of FILL months, so that the even split
\* of greedy.py:111 is exact
StepV == LcmUpTo(MaxGreedyLen)

(***************************************************************************)
(* Numeric helpers.                                                        *)
(***************************************************************************)
Abs(x) == IF x < 0 THEN -x ELSE x

Min(a, b) == IF a <= b THEN a ELSE b

Max(a, b) == IF a >= b THEN a ELSE b

\* Python's true division, on operands for which it is exact
ExactDiv(a, b) == IF a % b = 0 THEN a \div b ELSE "inexact"

RECURSIVE SumSeq(_)
SumSeq(s) == IF s = <<>> THEN 0 ELSE Head(s) + SumSeq(Tail(s))

(***************************************************************************)
(* Operation modes (month_selector.py, OperationMode).                     *)
(***************************************************************************)
FILL == "FILL"

DISCHARGE == "DISCHARGE"

(***************************************************************************)
(* Geometry and static levels: one valid input (curves ascending, equal    *)
(* lengths, nrl > dead >= 0, installed_capacity > 0).                      *)
(***************************************************************************)
headwater_marks == <<1000 * StepV, 1040 * StepV, 1064 * StepV>>

average_volumes == <<0, 10 * StepV, 22 * StepV>>

lowwater_marks == <<0, 200 * StepV, 400 * StepV>>

lowwater_inflows == <<0, 100 * StepV, 300 * StepV>>

nrl == 1060 * StepV

dead == 1020 * StepV

installed_capacity == 130000 * StepV * StepV

(***************************************************************************)
(* numpy.interp: clamped piecewise-linear interpolation.                   *)
(***************************************************************************)
RECURSIVE InterpFrom(_, _, _, _)
InterpFrom(x, xp, fp, i) ==
    IF i > Len(xp) THEN fp[Len(fp)]
    ELSE IF x <= xp[i]
         THEN fp[i - 1] + ExactDiv((fp[i] - fp[i - 1]) * (x - xp[i - 1]), xp[i] - xp[i - 1])
         ELSE InterpFrom(x, xp, fp, i + 1)

interp(x, xp, fp) == IF x <= xp[1] THEN fp[1] ELSE InterpFrom(x, xp, fp, 2)

(***************************************************************************)
(* core/formulas.py                                                        *)
(***************************************************************************)
compute_lowwater_mark(q) == interp(q, lowwater_inflows, lowwater_marks)

compute_headwater_mark(volume) == interp(volume, average_volumes, headwater_marks)

compute_domestic_capacity(q, h) == q * h

(***************************************************************************)
(* State.                                                                  *)
(***************************************************************************)
VARIABLES
    series,     \* HydrologicalSeries: months, domestic_inflows, guaranteed_capacity
    pc,         \* position of the call in progress, or how the last call ended
    modes,      \* list returned by calc_modes / mode list given to an optimizer
    start_idx,  \* rotated: start index found (Python index), -1 when none
    rot_series, \* rotated: series returned
    rot_modes,  \* rotated: mode list returned
    warned,     \* rotated: logger.warning was emitted
    disc_vol,   \* Greedy: discharge volumes sized so far, one per DISCHARGE month
    kd,         \* Greedy._calc_discharge: position k in d_idx of the month being sized
    dV,         \* Greedy._calc_discharge: discharge volume tried for that month
    fill_vol,   \* Greedy._balance_fill: fill volumes v, one per FILL month
    caps,       \* Greedy._balance_fill: capacities kept for the FILL months
    bi,         \* Greedy._balance_fill: position i in f_idx of the month balanced
    dv,         \* Greedy.compute_dV: the assembled signed plan
    step,       \* DynamicOptimizer.step: the volume step of the state grid
    tm,         \* Dynamic.compute_dV: month t of the Bellman loop
    def_cost,   \* Dynamic.compute_dV: table of cumulative deficits, INF = unreached
    en_cost,    \* Dynamic.compute_dV: table of cumulative negative energies
    prev,       \* Dynamic.compute_dV: table of predecessor states, -1 = none
    states,     \* Dynamic.compute_dV: reconstructed list of state indices
    opts,       \* GreyWolfOptimizer instances: pack_size, n_iter, seed of each
    cur,        \* GreyWolf: instance whose compute_dV runs (position in opts), 0 = none
    rng,        \* GreyWolf.compute_dV: state of the generator rng
    pack,       \* GreyWolf.compute_dV: the wolves, one row of volumes each
    scores,     \* GreyWolf.compute_dV: the cost of each wolf
    it,         \* GreyWolf.compute_dV: iteration of the main loop
    calls,      \* history: the compute_dV calls completed, with their plans
    name,       \* key the caller gives to the factory get, "none" = no optimizer wanted
    optimizer,  \* optimizer object the factory returned, "none" = none
    how,        \* how the caller hands the optimizer to ReservoirSimulator(...)
    sim_interp, \* ReservoirSimulator.interp: the object bound to the parameter interp
    volume,     \* ReservoirSimulator.run: state.volume
    records,    \* ReservoirSimulator.run: the records appended so far
    mi,         \* ReservoirSimulator.run: index i of the month loop
    interp_calls, \* ReservoirSimulator: <<place, interpolator>> of the interpolations made
    levels,     \* the StaticLevels object constructed by the caller, "none" = none yet
    result      \* the plan returned by compute_dV

selVars == <<start_idx, rot_series, rot_modes, warned>>

greedyVars == <<disc_vol, kd, dV, fill_vol, caps, bi, dv>>

dpVars == <<step, tm, def_cost, en_cost, prev, states>>

gwoVars == <<opts, cur, rng, pack, scores, it, calls>>

simVars == <<name, optimizer, how, sim_interp, volume, records, mi, interp_calls, levels>>

vars == <<series, pc, modes, selVars, greedyVars, dpVars, gwoVars, simVars, result>>

\* HydrologicalSeries of a list of monthly (inflow, guaranteed capacity) data,
\* months numbered 1..n as in tests/conftest.py
MakeSeries(data) ==
    [months |-> [i \in 1..Len(data) |-> i],
     domestic_inflows |-> [i \in 1..Len(data) |-> data[i][1]],
     guaranteed_capacity |-> [i \in 1..Len(data) |-> data[i][2]]]

NoSeries == MakeSeries(<<>>)

\* all lists of length lo..hi over the set S
SeqsOf(S, lo, hi) == UNION {[1..n -> S] : n \in lo..hi}

(***************************************************************************)
(* Python list indexing: index i >= 0 from the front, i < 0 from the back. *)
(***************************************************************************)
PyInRange(lst, i) == -Len(lst) <= i /\ i < Len(lst)

PyGet(lst, i) == IF i >= 0 THEN lst[i + 1] ELSE lst[Len(lst) + i + 1]

PySet(lst, i, v) == [lst EXCEPT ![IF i >= 0 THEN i + 1 ELSE Len(lst) + i + 1] = v]

(***************************************************************************)
(* MonthSelector.calc_modes                                                *)
(***************************************************************************)
\* primary classification of one month (month_selector.py:88-95)
PrimaryMode_LE(q_byt, n_gar) ==
    LET z_low == compute_lowwater_mark(q_byt)
        head  == nrl - z_low
        n_byt == compute_domestic_capacity(q_byt, head)
    IN  IF n_byt <= n_gar THEN DISCHARGE ELSE FILL

PrimaryMode(q_byt, n_gar) ==
    LET z_low == compute_lowwater_mark(q_byt)
        head  == nrl - z_low
        n_byt == compute_domestic_capacity(q_byt, head)
    IN  IF n_byt < n_gar THEN DISCHARGE ELSE FILL

\* the loop over zip(domestic_inflows, guaranteed_capacity), appending one
\* mode per month, from position p on
RECURSIVE PrimaryLoop(_, _, _)
PrimaryLoop(s, p, acc) ==
    IF p > Min(Len(s.domestic_inflows), Len(s.guaranteed_capacity)) THEN acc
    ELSE PrimaryLoop(s, p + 1,
            Append(acc, PrimaryMode(s.domestic_inflows[p], s.guaranteed_capacity[p])))

PrimaryModes(s) == PrimaryLoop(s, 1, <<>>)

\* the in-place loop "for i in range(1, len(modes) - 1)" from Python index i on
RECURSIVE SmoothLoop(_, _)
SmoothLoop(m, i) ==
    IF i >= Len(m) - 1 THEN m
    ELSE IF /\ PyGet(m, i - 1) = DISCHARGE
            /\ PyGet(m, i) = FILL
            /\ PyGet(m, i + 1) = DISCHARGE
         THEN SmoothLoop(PySet(m, i, DISCHARGE), i + 1)
         ELSE SmoothLoop(m, i + 1)

\* an "a and b and c" test over list elements raises IndexError at the first
\* element it evaluates that is out of range (month_selector.py:108-120)
EdgeRaises(m, a, b, c) ==
    \/ ~PyInRange(m, a)
    \/ /\ PyGet(m, a) = DISCHARGE
       /\ \/ ~PyInRange(m, b)
          \/ PyGet(m, b) = FILL /\ ~PyInRange(m, c)

EdgeHolds(m, a, b, c) ==
    /\ PyGet(m, a) = DISCHARGE
    /\ PyGet(m, b) = FILL
    /\ PyGet(m, c) = DISCHARGE

\* first cyclic test: modes[-1], modes[0], modes[1]
EdgeFirst(m) == IF EdgeHolds(m, -1, 0, 1) THEN PySet(m, 0, DISCHARGE) ELSE m

\* second cyclic test: modes[-2], modes[-1], modes[0]
EdgeLast(m) == IF EdgeHolds(m, -2, -1, 0) THEN PySet(m, -1, DISCHARGE) ELSE m

CalcModesRaises(s) ==
    LET m1 == SmoothLoop(PrimaryModes(s), 1)
    IN  \/ EdgeRaises(m1, -1, 0, 1)
        \/ EdgeRaises(EdgeFirst(m1), -2, -1, 0)

calc_modes_NoYearEdge(s) == SmoothLoop(PrimaryModes(s), 1)

calc_modes(s) == EdgeLast(EdgeFirst(SmoothLoop(PrimaryModes(s), 1)))

(***************************************************************************)
(* MonthSelector.rotated                                                   *)
(***************************************************************************)
\* Python indices i > 8 whose mode is DISCHARGE
StartCandidates(m) == {i \in 0..(Len(m) - 1) : PyGet(m, i) = DISCHARGE /\ i > 8}

\* next(...) over enumerate(modes): the first candidate, -1 for StopIteration
FindStart_GE8(m) ==
    LET c == {i \in 0..(Len(m) - 1) : PyGet(m, i) = DISCHARGE /\ i >= 8}
    IN  IF c = {} THEN -1 ELSE CHOOSE i \in c : \A j \in c : i <= j

FindStart(m) ==
    IF StartCandidates(m) = {} THEN -1
    ELSE CHOOSE i \in StartCandidates(m) : \A j \in StartCandidates(m) : i <= j

\* _rot: lst[start_idx:] + lst[:start_idx]
Rot_DropsOne(lst, s) == SubSeq(lst, s + 1, Len(lst)) \o SubSeq(lst, 1, s - 1)

Rot(lst, s) == SubSeq(lst, s + 1, Len(lst)) \o SubSeq(lst, 1, s)

RotSeries(s, k) ==
    [months |-> Rot(s.months, k),
     domestic_inflows |-> Rot(s.domestic_inflows, k),
     guaranteed_capacity |-> Rot(s.guaranteed_capacity, k)]

(***************************************************************************)
(* Specification of the month selector: a selector is constructed over a   *)
(* series, then calc_modes or rotated is called on it.                     *)
(***************************************************************************)
\* monthly (domestic inflow, guaranteed capacity) data a series is built of:
\* baseline power below and above the guaranteed power
LongMonthData ==
    {<<100 * StepV, 86100 * StepV * StepV>>,
     <<150 * StepV, 100000 * StepV * StepV>>}

\* ... and equal to the guaranteed power
MonthData == LongMonthData \cup {<<100 * StepV, 86000 * StepV * StepV>>}

\* the series given to the selector: every short series over MonthData, every
\* longer one over LongMonthData
SelectorInputs ==
    SeqsOf(MonthData, 0, MaxShortLen) \cup SeqsOf(LongMonthData, MaxShortLen + 1, MaxSelLen)

Init ==
    /\ series \in {MakeSeries(d) : d \in SelectorInputs}
    /\ pc = "ready"
    /\ modes = <<>>
    /\ start_idx = -1
    /\ rot_series = NoSeries
    /\ rot_modes = <<>>
    /\ warned = FALSE
    /\ disc_vol = <<>> /\ kd = 0 /\ dV = 0
    /\ fill_vol = <<>> /\ caps = <<>> /\ bi = 0
    /\ dv = <<>> /\ result = <<>>
    /\ step = 0 /\ tm = 0 /\ def_cost = <<>> /\ en_cost = <<>>
    /\ prev = <<>> /\ states = <<>>
    /\ opts = <<>> /\ cur = 0 /\ rng = 0 /\ pack = <<>> /\ scores = <<>>
    /\ it = 0 /\ calls = <<>>
    /\ name = "none" /\ optimizer = "none" /\ how = "none" /\ sim_interp = "none"
    /\ volume = 0 /\ records = <<>> /\ mi = 0
    /\ interp_calls = {} /\ levels = "none"

CalcModesCall ==
    /\ pc = "ready"
    /\ IF CalcModesRaises(series)
       THEN pc' = "IndexError" /\ modes' = <<>>
       ELSE pc' = "modes" /\ modes' = calc_modes(series)
    /\ UNCHANGED <<simVars, gwoVars, dpVars, series, selVars, greedyVars, result>>

RotatedCall ==
    /\ pc = "ready"
    /\ IF CalcModesRaises(series)
       THEN /\ pc' = "IndexError"
            /\ UNCHANGED <<modes, selVars>>
       ELSE LET m == calc_modes(series)
                s == FindStart(m)
            IN  /\ pc' = "rotated"
                /\ modes' = m
                /\ start_idx' = s
                /\ IF s = -1
                   THEN /\ warned' = TRUE
                        /\ rot_series' = series
                        /\ rot_modes' = m
                   ELSE /\ warned' = FALSE
                        /\ rot_series' = RotSeries(series, s)
                        /\ rot_modes' = Rot(m, s)
    /\ UNCHANGED <<simVars, gwoVars, dpVars, series, greedyVars, result>>

Next == CalcModesCall \/ RotatedCall

Spec == Init /\ [][Next]_vars

(***************************************************************************)
(* Properties of the month selector.                                       *)
(***************************************************************************)
\* month i (Python index) has baseline power strictly below guaranteed power
BaselineBelow(s, i) ==
    LET q == PyGet(s.domestic_inflows, i)
    IN  compute_domestic_capacity(q, nrl - compute_lowwater_mark(q))
            < PyGet(s.guaranteed_capacity, i)

\* month i of the list m is a FILL month between two DISCHARGE months, cyclically
FillIsland(m, i) ==
    LET n == Len(m)
    IN  /\ PyGet(m, i) = FILL
        /\ PyGet(m, (i + n - 1) % n) = DISCHARGE
        /\ PyGet(m, (i + 1) % n) = DISCHARGE

\* C1: for every series of length n >= 2 calc_modes returns a list (no error)
\* and the list has no FILL month whose cyclic predecessor and successor are
\* both DISCHARGE, index 0 and index n-1 included.
C1_NoFillIsland ==
    /\ Len(series.months) >= 2 => pc # "IndexError"
    /\ pc = "modes" => \A i \in 0..(Len(modes) - 1) : ~FillIsland(modes, i)

\* C1 witness: the primary classification has a FILL island at index 0, across
\* the year boundary, and calc_modes has returned
C1_Witness ==
    /\ pc = "modes"
    /\ Len(modes) >= 3
    /\ FillIsland(PrimaryModes(series), 0)
    /\ PyGet(modes, 0) = DISCHARGE

\* the reference classifier: DISCHARGE exactly when (a) the baseline power is
\* strictly below the guaranteed power, or (b) the month is FILL by (a) and both
\* its cyclic neighbours are DISCHARGE by (a)
RefModes(s) ==
    LET n == Len(s.months)
    IN  [p \in 1..n |->
            IF \/ BaselineBelow(s, p - 1)
               \/ /\ BaselineBelow(s, (p - 1 + n - 1) % n)
                  /\ BaselineBelow(s, p % n)
            THEN DISCHARGE ELSE FILL]

C4_CyclicShift ==
    pc = "rotated" /\ start_idx # -1 =>
        LET n == Len(series.months)
        IN  /\ Len(rot_series.months) = n
            /\ Len(rot_series.domestic_inflows) = n
            /\ Len(rot_series.guaranteed_capacity) = n
            /\ Len(rot_modes) = n
            /\ \A k \in 0..(n - 1) :
                  LET o == (start_idx + k) % n
                  IN  /\ PyGet(rot_series.months, k) = PyGet(series.months, o)
                      /\ PyGet(rot_series.domestic_inflows, k)
                            = PyGet(series.domestic_inflows, o)
                      /\ PyGet(rot_series.guaranteed_capacity, k)
                            = PyGet(series.guaranteed_capacity, o)
                      /\ PyGet(rot_modes, k) = PyGet(modes, o)

\* C4 witness: rotated has shifted a 12-month series with two different
\* inflows by 9
C4_Witness ==
    /\ pc = "rotated"
    /\ start_idx = 9
    /\ Len(series.months) = 12
    /\ \E i, j \in 1..12 : series.domestic_inflows[i] # series.domestic_inflows[j]

(***************************************************************************)
(* GreedyOptimizer (optimizers/greedy.py)                                  *)
(***************************************************************************)
\* [i for i, m in enumerate(modes) if m is mode], from position p on
RECURSIVE IndicesFrom(_, _, _)
IndicesFrom(m, mode, p) ==
    IF p > Len(m) THEN <<>>
    ELSE IF m[p] = mode
         THEN <<p - 1>> \o IndicesFrom(m, mode, p + 1)
         ELSE IndicesFrom(m, mode, p + 1)

fill_idx(m) == IndicesFrom(m, FILL, 1)

disc_idx(m) == IndicesFrom(m, DISCHARGE, 1)

\* "x >= 1.05 * n_gar"
ReachesTarget(x, n_gar) == 20 * x >= 21 * n_gar

\* n_ges of a DISCHARGE month idx for the discharge volume d (greedy.py:96-101)
DischargePower(s, idx, d) ==
    LET q_ges == PyGet(s.domestic_inflows, idx) + d
        z_low == compute_lowwater_mark(q_ges)
    IN  Min(compute_domestic_capacity(q_ges, nrl - z_low), installed_capacity)

_initial_fill_WholeSteps(total_discharge, f_idx) ==
    IF f_idx = <<>> THEN <<>>
    ELSE [p \in 1..Len(f_idx) |-> ((total_discharge \div StepV) \div Len(f_idx)) * StepV]

_initial_fill(total_discharge, f_idx) ==
    IF f_idx = <<>> THEN <<>>
    ELSE [p \in 1..Len(f_idx) |-> ExactDiv(total_discharge, Len(f_idx))]

\* _recompute_caps: the loop over zip(vols, idx_list) from position p on, vol
\* being the running volume
RECURSIVE RecomputeLoop(_, _, _, _, _)
RecomputeLoop(s, vols, idx_list, p, vol) ==
    IF p > Min(Len(vols), Len(idx_list)) THEN <<>>
    ELSE LET q == PyGet(s.domestic_inflows, idx_list[p]) - vols[p]
             vol_end == vol + vols[p]
             avg_h == ExactDiv(compute_headwater_mark(vol) + compute_headwater_mark(vol_end), 2)
             z_low == compute_lowwater_mark(q)
         IN  <<compute_domestic_capacity(q, avg_h - z_low)>>
                \o RecomputeLoop(s, vols, idx_list, p + 1, vol_end)

\* the running volume starts from levels.nrl (greedy.py:135)
_recompute_caps(s, vols, idx_list) == RecomputeLoop(s, vols, idx_list, 1, nrl)

_cap_single(s, vol, idx) ==
    LET q == PyGet(s.domestic_inflows, idx) - vol
        avg_h == compute_headwater_mark(nrl + vol)
    IN  compute_domestic_capacity(q, avg_h - compute_lowwater_mark(q))

\* numpy.argmax: Python index of the first largest element
argmax(lst) ==
    CHOOSE j \in 0..(Len(lst) - 1) :
        /\ \A a \in 0..(Len(lst) - 1) : PyGet(lst, a) <= PyGet(lst, j)
        /\ \A a \in 0..(j - 1) : PyGet(lst, a) < PyGet(lst, j)

\* the signed plan assembled from the two lists (greedy.py:69-77), from
\* position p of the mode list on, di and fi counting the months consumed
RECURSIVE AssembleFrom(_, _, _, _, _, _)
AssembleFrom(m, dvol, fvol, p, di, fi) ==
    IF p > Len(m) THEN <<>>
    ELSE IF m[p] = DISCHARGE
         THEN <<-PyGet(dvol, di)>> \o AssembleFrom(m, dvol, fvol, p + 1, di + 1, fi)
         ELSE <<PyGet(fvol, fi)>> \o AssembleFrom(m, dvol, fvol, p + 1, di, fi + 1)

Assemble(m, dvol, fvol) == AssembleFrom(m, dvol, fvol, 1, 0, 0)

\* "abs(sum(dv)) < 1e-6", 1e-6 km3 being StepV / 10000 volume units
ClosureOK_NoAbs(plan) == 10000 * SumSeq(plan) < StepV

ClosureOK(plan) == 10000 * Abs(SumSeq(plan)) < StepV

(***************************************************************************)
(* Specification of the Greedy planner: compute_dV is called with a series *)
(* and the mode list the month selector gives for it, and runs step by     *)
(* step.                                                                   *)
(***************************************************************************)
\* months given to the planner: the selector's three kinds, a month that
\* needs a deep discharge, and a month whose 1.05 x guaranteed power exceeds
\* the installed capacity
GreedyMonthData ==
    MonthData \cup {<<100 * StepV, 88000 * StepV * StepV>>,
                    <<100 * StepV, 125000 * StepV * StepV>>}

GreedyInputs == SeqsOf(GreedyMonthData, 2, MaxGreedyLen)

GreedyInit ==
    /\ series \in {MakeSeries(d) : d \in GreedyInputs}
    /\ modes = calc_modes(series)
    /\ pc = "compute_dV"
    /\ start_idx = -1 /\ rot_series = NoSeries /\ rot_modes = <<>> /\ warned = FALSE
    /\ disc_vol = <<>> /\ kd = 0 /\ dV = 0
    /\ fill_vol = <<>> /\ caps = <<>> /\ bi = 0
    /\ dv = <<>> /\ result = <<>>
    /\ step = 0 /\ tm = 0 /\ def_cost = <<>> /\ en_cost = <<>>
    /\ prev = <<>> /\ states = <<>>
    /\ opts = <<>> /\ cur = 0 /\ rng = 0 /\ pack = <<>> /\ scores = <<>>
    /\ it = 0 /\ calls = <<>>
    /\ name = "none" /\ optimizer = "none" /\ how = "none" /\ sim_interp = "none"
    /\ volume = 0 /\ records = <<>> /\ mi = 0
    /\ interp_calls = {} /\ levels = "none"

\* compute_dV up to the first iteration of _calc_discharge
GreedyStart ==
    /\ pc = "compute_dV"
    /\ pc' = "_calc_discharge"
    /\ disc_vol' = [p \in 1..Len(disc_idx(modes)) |-> 0]
    /\ kd' = 0
    /\ dV' = 0
    /\ UNCHANGED <<simVars, gwoVars, dpVars, series, modes, selVars, fill_vol, caps, bi, dv, result>>

\* one iteration of the "while True" loop of _calc_discharge
DischargeStep ==
    /\ pc = "_calc_discharge"
    /\ kd < Len(disc_idx(modes))
    /\ LET idx == PyGet(disc_idx(modes), kd)
           n_gar == PyGet(series.guaranteed_capacity, idx)
           n_ges == DischargePower(series, idx, dV)
       IN  IF ReachesTarget(n_ges, n_gar)
           THEN /\ disc_vol' = PySet(disc_vol, kd, dV)
                /\ kd' = kd + 1
                /\ dV' = 0
           ELSE /\ dV < MaxDischargeSteps * StepV
                /\ dV' = dV + StepV
                /\ UNCHANGED <<disc_vol, kd>>
    /\ UNCHANGED <<simVars, gwoVars, dpVars, series, modes, selVars, pc, fill_vol, caps, bi, dv, result>>

\* _calc_discharge returns; _initial_fill and the start of _balance_fill
BalanceStart ==
    /\ pc = "_calc_discharge"
    /\ kd = Len(disc_idx(modes))
    /\ LET vols == _initial_fill(SumSeq(disc_vol), fill_idx(modes))
       IN  /\ fill_vol' = vols
           /\ caps' = IF fill_idx(modes) = <<>> THEN <<>>
                      ELSE _recompute_caps(series, vols, fill_idx(modes))
    /\ bi' = 0
    /\ pc' = "_balance_fill"
    /\ UNCHANGED <<simVars, gwoVars, dpVars, series, modes, selVars, disc_vol, kd, dV, dv, result>>

\* "v[i] >= 0.01" of the "while" condition of _balance_fill: the month still
\* has a whole step to give
CanGive_BelowZero(v) == v >= -StepV

CanGive(v) == v >= StepV

\* one test of the "while" condition of _balance_fill for month f_idx[bi]:
\* one transfer of 0.01 km3, or the move to the next FILL month
BalanceStep ==
    /\ pc = "_balance_fill"
    /\ bi < Len(fill_idx(modes))
    /\ LET idx == PyGet(fill_idx(modes), bi)
           n_gar == PyGet(series.guaranteed_capacity, idx)
       IN  IF ~ReachesTarget(PyGet(caps, bi), n_gar) /\ CanGive(PyGet(fill_vol, bi))
           THEN LET j == argmax(caps)
                    v1 == PySet(fill_vol, j, PyGet(fill_vol, j) + StepV)
                    v2 == PySet(v1, bi, PyGet(v1, bi) - StepV)
                    c1 == PySet(caps, bi, _cap_single(series, PyGet(v2, bi), idx))
                    c2 == PySet(c1, j,
                                _cap_single(series, PyGet(v2, j), PyGet(fill_idx(modes), j)))
                IN  /\ fill_vol' = v2
                    /\ caps' = c2
                    /\ bi' = bi
           ELSE /\ bi' = bi + 1
                /\ UNCHANGED <<fill_vol, caps>>
    /\ UNCHANGED <<simVars, gwoVars, dpVars, series, modes, selVars, pc, disc_vol, kd, dV, dv, result>>

\* _balance_fill returns; the plan is assembled and the closure is asserted
AssembleAndReturn ==
    /\ pc = "_balance_fill"
    /\ bi = Len(fill_idx(modes))
    /\ LET plan == Assemble(modes, disc_vol, fill_vol)
       IN  /\ dv' = plan
           /\ IF ClosureOK(plan)
              THEN pc' = "returned" /\ result' = plan
              ELSE pc' = "AssertionError" /\ result' = <<>>
    /\ UNCHANGED <<simVars, gwoVars, dpVars, series, modes, selVars, disc_vol, kd, dV, fill_vol, caps, bi>>

GreedyNext ==
    \/ GreedyStart
    \/ DischargeStep
    \/ BalanceStart
    \/ BalanceStep
    \/ AssembleAndReturn

SpecGreedy == GreedyInit /\ [][GreedyNext]_vars

(***************************************************************************)
(* Properties of the Greedy planner.                                       *)
(***************************************************************************)
\* |sum(plan)| < 1e-6 km3
SumsToZero(plan) == 10000 * SumSeq(plan) < StepV /\ 10000 * SumSeq(plan) > -StepV

\* C5: the plan compute_dV returns sums to zero within 1e-6, and whenever
\* there is a FILL month the assembled plan sums to zero within 1e-6: the
\* fill volumes add up to the sized discharge volumes.
C5_PlanSumsToZero ==
    /\ pc = "returned" => SumsToZero(result)
    /\ pc \in {"returned", "AssertionError"} /\ fill_idx(modes) # <<>> => SumsToZero(dv)

\* C5 witness: a plan was returned that discharges in one month and fills
\* two months by different volumes (balancing has moved volume)
C5_Witness ==
    /\ pc = "returned"
    /\ \E a \in 1..Len(result) : result[a] < 0
    /\ \E a, b \in 1..Len(result) :
          result[a] > 0 /\ result[b] > 0 /\ result[a] # result[b]

\* generated power of month idx (Python index) for the signed delta d, by the
\* planner's formulas: greedy.py:96-101 in a DISCHARGE month, greedy.py:148-154
\* in a FILL month
PlanPower(m, s, idx, d) ==
    IF PyGet(m, idx) = DISCHARGE
    THEN LET q == PyGet(s.domestic_inflows, idx) - d
         IN  Min(q * (nrl - interp(q, lowwater_inflows, lowwater_marks)), installed_capacity)
    ELSE LET q == PyGet(s.domestic_inflows, idx) - d
         IN  q * (interp(nrl + d, average_volumes, headwater_marks)
                    - interp(q, lowwater_inflows, lowwater_marks))

\* month idx reaches 1.05 x its guaranteed power, up to one 0.01 km3 step
WithinOneStep(m, s, idx, d) ==
    \E e \in {d - StepV, d, d + StepV} :
        20 * PlanPower(m, s, idx, e) >= 21 * PyGet(s.guaranteed_capacity, idx)

\* C6 (as claimed): in the returned plan every month, DISCHARGE and FILL
\* alike, generates at least 1.05 x its guaranteed power, up to the effect of
\* one 0.01 km3 step.
C6_EveryMonthReachesTarget ==
    pc = "returned" =>
        \A idx \in 0..(Len(result) - 1) : WithinOneStep(modes, series, idx, PyGet(result, idx))

\* C7: compute_dV ends in AssertionError, returning no plan, exactly when the
\* assembled plan's sum deviates from zero by 1e-6 or more; otherwise it
\* returns the assembled plan.
C7_AssertionGuardsReturn ==
    pc \in {"returned", "AssertionError"} =>
        /\ pc = "AssertionError" <=> ~SumsToZero(dv)
        /\ pc = "AssertionError" => result = <<>>
        /\ pc = "returned" => result = dv

\* C7 witness: the call ended in AssertionError on a plan of DISCHARGE months
\* only, whose sum is negative
C7_Witness ==
    /\ pc = "AssertionError"
    /\ SumSeq(dv) < 0
    /\ fill_idx(modes) = <<>>

\* the volumes of the NRL and of the dead level
\* (reservoir_simulator.py:49, dynamic.py:86-87)
nrl_volume == interp(nrl, headwater_marks, average_volumes)

dead_volume == interp(dead, headwater_marks, average_volumes)

\* C8 (as claimed): replaying the returned plan from the NRL volume, the
\* volume after every month lies within [dead-level volume, NRL volume].
C8_ReplayWithinBounds ==
    pc = "returned" =>
        \A n \in 1..Len(result) :
            LET vol == nrl_volume + SumSeq(SubSeq(result, 1, n))
            IN  dead_volume <= vol /\ vol <= nrl_volume

(***************************************************************************)
(* DynamicOptimizer.compute_dV (optimizers/dynamic.py)                     *)
(***************************************************************************)
\* longest series given to the dynamic-programming planner
MaxDPLen == 3

\* float("inf") of the cost tables: larger than every cumulative cost
INF == 2000000000

\* 1 / rtol of numpy.isclose (rtol = 1e-5); its atol = 1e-8 MW is below one
\* power unit and is dropped
RtolInv == 100000

\* numpy.arange(dead_volume, nrl_volume + step, step) with the first cell set
\* to dead_volume and the last one clipped to nrl_volume
grid_Unclipped(st) ==
    LET n_states == (nrl_volume - dead_volume + 2 * st - 1) \div st
        cells == [i \in 1..n_states |-> dead_volume + (i - 1) * st]
    IN  PySet(cells, 0, dead_volume)

grid(st) ==
    LET n_states == (nrl_volume - dead_volume + 2 * st - 1) \div st
        cells == [i \in 1..n_states |-> dead_volume + (i - 1) * st]
        first == PySet(cells, 0, dead_volume)
    IN  PySet(first, -1, Min(PyGet(first, -1), nrl_volume))

\* numpy.argmin: Python index of the first smallest element
argmin(lst) ==
    CHOOSE j \in 0..(Len(lst) - 1) :
        /\ \A a \in 0..(Len(lst) - 1) : PyGet(lst, j) <= PyGet(lst, a)
        /\ \A a \in 0..(j - 1) : PyGet(lst, j) < PyGet(lst, a)

\* the state the year starts in: the cell nearest to the NRL volume
dp_start_idx(st) ==
    argmin([i \in 1..Len(grid(st)) |-> Abs(grid(st)[i] - nrl_volume)])

\* the sign of the control agrees with the mode of the month
Admissible_NonZero(mode, delta) ==
    ~ ((mode = DISCHARGE /\ delta >= 0) \/ (mode = FILL /\ delta <= 0))

Admissible(mode, delta) ==
    ~ ((mode = DISCHARGE /\ delta > 0) \/ (mode = FILL /\ delta < 0))

\* neither end of the month lies below the dead level (the tolerance 1e-9 is
\* below one mark unit)
AboveDead(v, vn) ==
    ~ (compute_headwater_mark(v) < dead \/ compute_headwater_mark(vn) < dead)

\* power generated in a month of inflow q_byt that takes the volume from v
\* to vn
MonthPower(q_byt, v, vn) ==
    LET z_start == compute_headwater_mark(v)
        z_end == compute_headwater_mark(vn)
        q == q_byt - (vn - v)
        z_low == compute_lowwater_mark(q)
        head == ExactDiv(z_start + z_end, 2) - z_low
    IN  Min(compute_domestic_capacity(q, head), installed_capacity)

MonthDeficit(n_gar, n_ges) == Max(0, n_gar - n_ges)

\* numpy.isclose(a, b): |a - b| <= atol + rtol * |b|, False against inf
IsClose(a, b) ==
    IF a = INF \/ b = INF THEN a = b ELSE Abs(a - b) <= Abs(b) \div RtolInv

\* the comparison that decides an update of cell (t + 1, j)
better(new_def, new_en, old_def, old_en) ==
    new_def < old_def \/ (IsClose(new_def, old_def) /\ new_en < old_en)

\* the update of cell (t + 1, j) in the three tables: the two costs and the
\* predecessor i are written together
Store_CostsOnly(row, j, i, new_def, new_en) ==
    [d |-> PySet(row.d, j, new_def),
     e |-> PySet(row.e, j, new_en),
     p |-> row.p]

Store(row, j, i, new_def, new_en) ==
    [d |-> PySet(row.d, j, new_def),
     e |-> PySet(row.e, j, new_en),
     p |-> PySet(row.p, j, i)]

\* the double loop over (i, j) of month t (Python index), in the order of the
\* code, from pair number c on (i = c \div n_states, j = c % n_states); row
\* holds the cells (t + 1, .) of the three tables as updated so far
RECURSIVE BellmanLoop(_, _, _, _, _, _, _, _)
BellmanLoop(s, m, st, t, cur_def, cur_en, row, c) ==
    LET g == grid(st)
        n_states == Len(g)
        i == c \div n_states
        j == c % n_states
        v == PyGet(g, i)
        vn == PyGet(g, j)
        n_ges == MonthPower(PyGet(s.domestic_inflows, t), v, vn)
        deficit == MonthDeficit(PyGet(s.guaranteed_capacity, t), n_ges)
        new_def == PyGet(cur_def, i) + deficit
        new_en == PyGet(cur_en, i) - n_ges
        updated == Store(row, j, i, new_def, new_en)
    IN  IF c >= n_states * n_states THEN row
        ELSE IF PyGet(cur_def, i) = INF
             THEN BellmanLoop(s, m, st, t, cur_def, cur_en, row, c + 1)
        ELSE IF ~ Admissible(PyGet(m, t), vn - v) \/ ~ AboveDead(v, vn)
             THEN BellmanLoop(s, m, st, t, cur_def, cur_en, row, c + 1)
        ELSE IF better(new_def, new_en, PyGet(row.d, j), PyGet(row.e, j))
             THEN BellmanLoop(s, m, st, t, cur_def, cur_en, updated, c + 1)
             ELSE BellmanLoop(s, m, st, t, cur_def, cur_en, row, c + 1)

\* the states of the reconstruction after the months t, t - 1, ..., 0 were
\* walked back from the list lst (built in reverse, as in the code)
RECURSIVE WalkBack_StopsEarly(_, _, _)
WalkBack_StopsEarly(pv, lst, t) ==
    IF t < 1 THEN lst
    ELSE WalkBack_StopsEarly(pv, Append(lst, PyGet(PyGet(pv, t), PyGet(lst, -1))), t - 1)

RECURSIVE WalkBack(_, _, _)
WalkBack(pv, lst, t) ==
    IF t < 0 THEN lst
    ELSE WalkBack(pv, Append(lst, PyGet(PyGet(pv, t), PyGet(lst, -1))), t - 1)

Reverse(lst) == [i \in 1..Len(lst) |-> lst[Len(lst) + 1 - i]]

\* the terminal state: the start state, or the cheapest one when the start
\* state was not reached
end_idx(dc, st, n_months) ==
    IF PyGet(PyGet(dc, n_months), dp_start_idx(st)) = INF
    THEN argmin(PyGet(dc, n_months))
    ELSE dp_start_idx(st)

\* the deltas V[t + 1] - V[t] of a list of state indices
Deltas(st, idx) ==
    [t \in 1..(Len(idx) - 1) |-> PyGet(grid(st), idx[t + 1]) - PyGet(grid(st), idx[t])]

(***************************************************************************)
(* Specification of the dynamic-programming planner: an optimizer built    *)
(* with a grid step is called with a series and the mode list the month    *)
(* selector gives for it; the Bellman loop runs month by month.            *)
(***************************************************************************)
\* months given to the planner: a wet month without deficit, a dry month
\* whose guaranteed power is the installed capacity, a month whose guaranteed
\* power lies between the powers of neighbouring fill volumes, and an average
\* month
DPMonthData ==
    {<<300 * StepV, 100000 * StepV * StepV>>,
     <<20 * StepV, 130000 * StepV * StepV>>,
     <<40 * StepV, 28999 * StepV * StepV>>,
     <<100 * StepV, 86000 * StepV * StepV>>}

DPInputs == SeqsOf(DPMonthData, 2, MaxDPLen)

\* grid steps: two that divide the range of volumes and one that does not
DPSteps == {3 * StepV, 5 * StepV, 7 * StepV}

DPInit ==
    /\ series \in {MakeSeries(d) : d \in DPInputs}
    /\ step \in DPSteps
    /\ modes = calc_modes(series)
    /\ pc = "dp_compute_dV"
    /\ start_idx = -1 /\ rot_series = NoSeries /\ rot_modes = <<>> /\ warned = FALSE
    /\ disc_vol = <<>> /\ kd = 0 /\ dV = 0
    /\ fill_vol = <<>> /\ caps = <<>> /\ bi = 0
    /\ dv = <<>> /\ result = <<>>
    /\ tm = 0 /\ def_cost = <<>> /\ en_cost = <<>>
    /\ prev = <<>> /\ states = <<>>
    /\ opts = <<>> /\ cur = 0 /\ rng = 0 /\ pack = <<>> /\ scores = <<>>
    /\ it = 0 /\ calls = <<>>
    /\ name = "none" /\ optimizer = "none" /\ how = "none" /\ sim_interp = "none"
    /\ volume = 0 /\ records = <<>> /\ mi = 0
    /\ interp_calls = {} /\ levels = "none"

\* compute_dV up to the Bellman loop: the tables and the start state
DPTables ==
    /\ pc = "dp_compute_dV"
    /\ LET n_months == Len(series.months)
           n_states == Len(grid(step))
           blank == [i \in 1..n_states |-> INF]
           full == [t \in 1..(n_months + 1) |-> blank]
           first == PySet(blank, dp_start_idx(step), 0)
       IN  /\ def_cost' = PySet(full, 0, first)
           /\ en_cost' = PySet(full, 0, first)
           /\ prev' = [t \in 1..n_months |-> [i \in 1..n_states |-> -1]]
    /\ tm' = 0
    /\ pc' = "bellman"
    /\ UNCHANGED <<simVars, gwoVars, series, modes, selVars, greedyVars, step, states, result>>

\* one iteration of the loop over the months
BellmanMonth ==
    /\ pc = "bellman"
    /\ tm < Len(series.months)
    /\ LET row == BellmanLoop(series, modes, step, tm,
                              PyGet(def_cost, tm), PyGet(en_cost, tm),
                              [d |-> PyGet(def_cost, tm + 1),
                               e |-> PyGet(en_cost, tm + 1),
                               p |-> PyGet(prev, tm)], 0)
       IN  /\ def_cost' = PySet(def_cost, tm + 1, row.d)
           /\ en_cost' = PySet(en_cost, tm + 1, row.e)
           /\ prev' = PySet(prev, tm, row.p)
    /\ tm' = tm + 1
    /\ UNCHANGED <<simVars, gwoVars, series, modes, selVars, greedyVars, step, pc, states, result>>

\* the reconstruction of the trajectory and the return of the plan
Reconstruct ==
    /\ pc = "bellman"
    /\ tm = Len(series.months)
    /\ LET n_months == Len(series.months)
           walked == WalkBack(prev, <<end_idx(def_cost, step, n_months)>>, n_months - 1)
       IN  /\ states' = Reverse(walked)
           /\ result' = Deltas(step, Reverse(walked))
    /\ pc' = "dp_returned"
    /\ UNCHANGED <<simVars, gwoVars, series, modes, selVars, greedyVars, step, tm, def_cost, en_cost, prev>>

DPNext == DPTables \/ BellmanMonth \/ Reconstruct

SpecDP == DPInit /\ [][DPNext]_vars

(***************************************************************************)
(* Properties of the dynamic-programming planner.                          *)
(***************************************************************************)
\* cumulative deficit and cumulative power of the months p..n of a series
\* along a list of n + 1 volumes
RECURSIVE CumDeficit(_, _, _)
CumDeficit(s, vols, p) ==
    IF p > Len(s.months) THEN 0
    ELSE MonthDeficit(s.guaranteed_capacity[p],
                      MonthPower(s.domestic_inflows[p], vols[p], vols[p + 1]))
         + CumDeficit(s, vols, p + 1)

RECURSIVE CumPower(_, _, _)
CumPower(s, vols, p) ==
    IF p > Len(s.months) THEN 0
    ELSE MonthPower(s.domestic_inflows[p], vols[p], vols[p + 1])
         + CumPower(s, vols, p + 1)

\* the volumes a plan runs through from the NRL volume
PlanVolumes(plan) ==
    [t \in 1..(Len(plan) + 1) |-> nrl_volume + SumSeq(SubSeq(plan, 1, t - 1))]

\* all volume trajectories on the grid that start and end at the NRL cell and
\* respect the mode sign of every month
GridTrajectories(s, m, st) ==
    LET n_months == Len(s.months)
        g == grid(st)
        nrl_cell == g[dp_start_idx(st) + 1]
    IN  {vols \in {[t \in 1..(n_months + 1) |->
                       IF t = 1 \/ t = n_months + 1 THEN nrl_cell ELSE g[mid[t]]] :
                   mid \in [2..n_months -> 1..Len(g)]} :
            \A t \in 1..n_months : Admissible(m[t], vols[t + 1] - vols[t])}

\* C9 (as claimed): the returned plan attains the minimum cumulative deficit
\* over all grid trajectories from the NRL cell to the NRL cell that respect
\* the mode signs, and the maximum cumulative energy among the trajectories
\* of that minimum deficit.
C9_LexicographicOptimum ==
    pc = "dp_returned" =>
        LET plan_def == CumDeficit(series, PlanVolumes(result), 1)
            plan_pow == CumPower(series, PlanVolumes(result), 1)
        IN  \A vols \in GridTrajectories(series, modes, step) :
                /\ plan_def <= CumDeficit(series, vols, 1)
                /\ plan_def = CumDeficit(series, vols, 1)
                       => plan_pow >= CumPower(series, vols, 1)

\* C10: the reconstructed trajectory of a returned plan starts and ends at
\* the grid cell holding the NRL volume, the deltas sum to zero, and the
\* NRL terminal state was reached, so the fallback terminal is not selected.
C10_ReturnsToNRL ==
    pc = "dp_returned" =>
        LET n_months == Len(series.months)
            nrl_idx == dp_start_idx(step)
        IN  /\ PyGet(grid(step), nrl_idx) = nrl_volume
            /\ PyGet(states, 0) = nrl_idx
            /\ PyGet(states, -1) = nrl_idx
            /\ Len(result) = n_months
            /\ SumSeq(result) = 0
            /\ PyGet(PyGet(def_cost, n_months), nrl_idx) # INF
            /\ end_idx(def_cost, step, n_months) = nrl_idx

\* C10 witness: a returned plan that leaves the NRL cell and comes back on a
\* grid whose step does not divide the range of volumes
C10_Witness ==
    /\ pc = "dp_returned"
    /\ step = 7 * StepV
    /\ \E t \in 1..Len(result) : result[t] < 0
    /\ \E t \in 1..Len(result) : result[t] > 0
    /\ SumSeq(result) = 0

\* the tables after the months t, ..., n_months - 1 of the Bellman loop were
\* run on the tables tb (the loop of dynamic.py:112 as one computation)
RECURSIVE BellmanMonths(_, _, _, _, _)
BellmanMonths(s, m, st, t, tb) ==
    IF t >= Len(s.months) THEN tb
    ELSE LET row == BellmanLoop(s, m, st, t, PyGet(tb.d, t), PyGet(tb.e, t),
                                [d |-> PyGet(tb.d, t + 1),
                                 e |-> PyGet(tb.e, t + 1),
                                 p |-> PyGet(tb.p, t)], 0)
         IN  BellmanMonths(s, m, st, t + 1,
                           [d |-> PySet(tb.d, t + 1, row.d),
                            e |-> PySet(tb.e, t + 1, row.e),
                            p |-> PySet(tb.p, t, row.p)])

\* the plan a DynamicOptimizer of step st returns for a series and its modes
dp_compute_dV(s, m, st) ==
    LET n_months == Len(s.months)
        n_states == Len(grid(st))
        blank == [i \in 1..n_states |-> INF]
        full == [t \in 1..(n_months + 1) |-> blank]
        first == PySet(blank, dp_start_idx(st), 0)
        tb == BellmanMonths(s, m, st, 0,
                            [d |-> PySet(full, 0, first),
                             e |-> PySet(full, 0, first),
                             p |-> [t \in 1..n_months |-> [i \in 1..n_states |-> -1]]])
        walked == WalkBack(tb.p, <<end_idx(tb.d, st, n_months)>>, n_months - 1)
    IN  Deltas(st, Reverse(walked))

\* the plan of cumulative deficit d1 and power e1 is lexicographically no
\* worse than the plan of deficit d2 and power e2
NotWorse(d1, e1, d2, e2) == d1 < d2 \/ (d1 = d2 /\ e1 >= e2)

\* C11 (as claimed): the plan of a finer grid step is lexicographically
\* (cumulative deficit, then negative energy) no worse than the plan of any
\* coarser step for the same series and modes, nested grids or not.
C11_FinerNeverWorse ==
    pc = "dp_returned" =>
        \A coarser \in {st \in DPSteps : st > step} :
            LET other == dp_compute_dV(series, modes, coarser)
            IN  NotWorse(CumDeficit(series, PlanVolumes(result), 1),
                         CumPower(series, PlanVolumes(result), 1),
                         CumDeficit(series, PlanVolumes(other), 1),
                         CumPower(series, PlanVolumes(other), 1))

\* C12: a returned plan has one delta per month of the series; the walk back
\* visited n_months + 1 states, each one a valid grid index, so no unset
\* predecessor (-1) was read.
C12_OneDeltaPerMonth ==
    pc = "dp_returned" =>
        /\ Len(result) = Len(series.months)
        /\ Len(states) = Len(series.months) + 1
        /\ \A p \in 1..Len(states) : states[p] \in 0..(Len(grid(step)) - 1)

\* C12 witness: a plan of the longest series returned on the finest grid,
\* whose walk back went through three different cells
C12_Witness ==
    /\ pc = "dp_returned"
    /\ Len(result) = MaxDPLen
    /\ step = 3 * StepV
    /\ Cardinality({states[p] : p \in 1..Len(states)}) >= 3

(***************************************************************************)
(* Floating point.  The volumes of the Grey Wolf planner are results of    *)
(* rounded arithmetic, so its model rounds: a number is representable when *)
(* it is an integer m * 2^e with |m| < 2^MantissaBits and e >= 0, and      *)
(* every volume-valued operation rounds its exact result to the nearest    *)
(* representable number, ties to the even mantissa (IEEE 754 binary64 has  *)
(* 53 bits; the model has MantissaBits).  Dimensionless coefficients (the  *)
(* random draws and the coefficient a) are kept as exact fractions.        *)
(***************************************************************************)
\* width of the mantissa of the model's floating-point numbers
MantissaBits == 4

RECURSIVE Pow2(_)
Pow2(n) == IF n = 0 THEN 1 ELSE 2 * Pow2(n - 1)

\* the spacing of the representable numbers around the magnitude ax, from
\* the spacing u on
RECURSIVE UlpFrom(_, _)
UlpFrom(ax, u) == IF ax < Pow2(MantissaBits) * u THEN u ELSE UlpFrom(ax, 2 * u)

\* the quotient num / den (den > 0), rounded to nearest, ties to even
FlDiv(num, den) ==
    LET an == Abs(num)
        u == UlpFrom(an \div den, 1)
        m == an \div (den * u)
        rest == an - m * den * u
        up == 2 * rest > den * u \/ (2 * rest = den * u /\ m % 2 = 1)
        mag == IF up THEN (m + 1) * u ELSE m * u
    IN  IF num < 0 THEN -mag ELSE mag

\* the rounded value of an exact sum, difference or product
Fl(x) == FlDiv(x, 1)

\* numpy.clip of one number
clip_Off(x, lo, hi) == x

clip(x, lo, hi) == Min(Max(x, lo), hi)

(***************************************************************************)
(* GreyWolfOptimizer (optimizers/gwo.py)                                   *)
(***************************************************************************)
\* numpy.random.Generator: the state of a generator is a number 0..63; a
\* draw steps the state and yields one of the fractions 0/4 .. 3/4 (its
\* numerator is returned); default_rng(seed) is a function of the seed only
default_rng(seed) == (seed * 29 + 11) % 64

RngNext(g) == (g * 5 + 3) % 64

RngDraw(g) == RngNext(g) \div 16

\* rng.uniform(lo, hi) drawn count times: the values and the generator left
RECURSIVE Uniform(_, _, _, _)
Uniform(g, lo, hi, count) ==
    IF count = 0 THEN [vals |-> <<>>, rng |-> g]
    ELSE LET x == Fl(lo + FlDiv((hi - lo) * RngDraw(g), 4))
             rest == Uniform(RngNext(g), lo, hi, count - 1)
         IN  [vals |-> <<x>> \o rest.vals, rng |-> rest.rng]

\* the initial pack (gwo.py:52-54): pack_size rows of n_months volumes, filled
\* row by row, the last volume of every row set to v_nrl
InitialPack(g, pack_size, n_months) ==
    LET drawn == Uniform(g, dead_volume, nrl_volume, pack_size * n_months)
    IN  [pack |-> [i \in 1..pack_size |->
                      PySet([j \in 1..n_months |-> drawn.vals[(i - 1) * n_months + j]],
                            -1, nrl_volume)],
         rng |-> drawn.rng]

\* a cost is a number h * 2^30 + m * 2^15 + l kept as <<h, m, l>> with
\* m, l < 2^15, since the squares of deficits exceed the machine integers
CostNorm(h, m, l) ==
    LET m2 == m + (l \div Pow2(15))
    IN  <<h + (m2 \div Pow2(15)), m2 % Pow2(15), l % Pow2(15)>>

CostAdd(c1, c2) == CostNorm(c1[1] + c2[1], c1[2] + c2[2], c1[3] + c2[3])

CostLess(c1, c2) ==
    \/ c1[1] < c2[1]
    \/ c1[1] = c2[1] /\ c1[2] < c2[2]
    \/ c1[1] = c2[1] /\ c1[2] = c2[2] /\ c1[3] < c2[3]

\* deficit ** 2
Square(x) ==
    LET hi == x \div Pow2(15)
        lo == x % Pow2(15)
        cross == 2 * hi * lo
    IN  CostNorm(hi * hi + (cross \div Pow2(15)),
                 ((lo * lo) \div Pow2(15)) + (cross % Pow2(15)),
                 (lo * lo) % Pow2(15))

\* the loop of _score from month t (Python index) on, v_prev the volume the
\* month starts with; the penalty of gwo.py:121 closes the sum (one squared
\* volume unit is counted as one squared power unit)
RECURSIVE ScoreFrom(_, _, _, _)
ScoreFrom(vols, s, t, v_prev) ==
    IF t >= Len(vols)
    THEN CostNorm(0, 0, 100 * (v_prev - nrl_volume) * (v_prev - nrl_volume))
    ELSE LET v_end == clip(PyGet(vols, t), dead_volume, nrl_volume)
             n_ges == MonthPower(PyGet(s.domestic_inflows, t), v_prev, v_end)
             deficit == MonthDeficit(PyGet(s.guaranteed_capacity, t), n_ges)
         IN  CostAdd(Square(deficit), ScoreFrom(vols, s, t + 1, v_end))

_score(vols, s) == ScoreFrom(vols, s, 0, nrl_volume)

Scores(pk, s) == [i \in 1..Len(pk) |-> _score(pk[i], s)]

\* numpy.argsort of the scores (insertion sort for short arrays: equal
\* scores keep their order): the Python index of the wolf of rank r
Rank(sc, i) ==
    Cardinality({a \in 1..Len(sc) :
                    \/ CostLess(sc[a], sc[i])
                    \/ ~ CostLess(sc[i], sc[a]) /\ a < i})

argsort(sc) ==
    [r \in 1..Len(sc) |-> (CHOOSE i \in 1..Len(sc) : Rank(sc, i) = r - 1) - 1]

\* numpy.argmin of the scores: Python index of the first smallest score
BestIndex(sc) == PyGet(argsort(sc), 0)

\* one pull of the position x toward the leader's volume lead
\* (gwo.py:67-71): two draws, A = a * (2 * r1 - 1) with a = a_num / a_den,
\* C = 2 * r2, D = |C * lead - x|, X = lead - A * D
Pull(g, lead, x, a_num, a_den) ==
    LET r1 == RngDraw(g)
        r2 == RngDraw(RngNext(g))
        dist == Abs(Fl(FlDiv(2 * r2 * lead, 4) - x))
    IN  [X |-> Fl(lead - FlDiv(a_num * (2 * r1 - 4) * dist, a_den * 4)),
         rng |-> RngNext(RngNext(g))]

\* the loops over the wolves i and the months j of one iteration
\* (gwo.py:65-88), from pair number c on; alpha, beta and delta are views of
\* the rows ia, ib, ic of the pack, so they show the volumes as updated so far
RECURSIVE UpdateLoop(_, _, _, _, _, _, _, _)
UpdateLoop(pk, g, ia, ib, ic, a_num, a_den, c) ==
    LET n_months == Len(pk[1])
        i == c \div n_months
        j == c % n_months
        x == PyGet(PyGet(pk, i), j)
        p1 == Pull(g, PyGet(PyGet(pk, ia), j), x, a_num, a_den)
        p2 == Pull(p1.rng, PyGet(PyGet(pk, ib), j), x, a_num, a_den)
        p3 == Pull(p2.rng, PyGet(PyGet(pk, ic), j), x, a_num, a_den)
        moved == PySet(PyGet(pk, i), j, FlDiv(Fl(Fl(p1.X + p2.X) + p3.X), 3))
        clipped == [q \in 1..n_months |-> clip(moved[q], dead_volume, nrl_volume)]
        row == IF j = n_months - 1 THEN PySet(clipped, -1, nrl_volume) ELSE moved
    IN  IF c >= Len(pk) * n_months THEN [pack |-> pk, rng |-> g]
        ELSE UpdateLoop(PySet(pk, i, row), p3.rng, ia, ib, ic, a_num, a_den, c + 1)

\* iteration it of n_iter (gwo.py:61-88): a = 2 - 2 * it / max(1, n_iter - 1)
Iteration(pk, sc, g, iter, n_iter) ==
    LET order == argsort(sc)
        a_den == Max(1, n_iter - 1)
    IN  UpdateLoop(pk, g, PyGet(order, 0), PyGet(order, 1), PyGet(order, 2),
                   2 * a_den - 2 * iter, a_den, 0)

\* the plan of the best wolf (gwo.py:92-95)
BestPlan(pk, sc) ==
    LET best == PyGet(pk, BestIndex(sc))
        volumes == <<nrl_volume>> \o best
    IN  [i \in 1..Len(best) |-> Fl(volumes[i + 1] - volumes[i])]

\* the generator a call draws from (gwo.py:45), seed being the seed of the
\* instance and left the generator the previous call left behind
new_rng_Shared(seed, left) == IF left < 0 THEN default_rng(seed) ELSE left

new_rng(seed, left) == default_rng(seed)

(***************************************************************************)
(* Specification of the Grey Wolf planner: two optimizer instances exist;  *)
(* compute_dV is called on either of them, one call after the other, each  *)
(* call running its main loop iteration by iteration.                      *)
(***************************************************************************)
\* largest iteration count of an instance
MaxGwoIter == 2

\* number of calls made
MaxCalls == 2

GwoConfigs == [pack_size : {3}, n_iter : 1..MaxGwoIter, seed : {0, 2}]

\* series given to the planner: a short one and two of three months
GwoInputs ==
    {<<<<20 * StepV, 130000 * StepV * StepV>>, <<300 * StepV, 100000 * StepV * StepV>>>>,
     <<<<300 * StepV, 100000 * StepV * StepV>>, <<20 * StepV, 130000 * StepV * StepV>>,
       <<40 * StepV, 28999 * StepV * StepV>>>>,
     <<<<100 * StepV, 86000 * StepV * StepV>>, <<20 * StepV, 130000 * StepV * StepV>>,
       <<100 * StepV, 86000 * StepV * StepV>>>>}

GwoInit ==
    /\ opts \in {<<c1, c2>> : c1 \in GwoConfigs, c2 \in GwoConfigs}
    /\ series = NoSeries /\ modes = <<>>
    /\ pc = "idle"
    /\ start_idx = -1 /\ rot_series = NoSeries /\ rot_modes = <<>> /\ warned = FALSE
    /\ disc_vol = <<>> /\ kd = 0 /\ dV = 0
    /\ fill_vol = <<>> /\ caps = <<>> /\ bi = 0
    /\ dv = <<>> /\ result = <<>>
    /\ step = 0 /\ tm = 0 /\ def_cost = <<>> /\ en_cost = <<>>
    /\ prev = <<>> /\ states = <<>>
    /\ cur = 0 /\ rng = -1 /\ pack = <<>> /\ scores = <<>>
    /\ it = 0 /\ calls = <<>>
    /\ name = "none" /\ optimizer = "none" /\ how = "none" /\ sim_interp = "none"
    /\ volume = 0 /\ records = <<>> /\ mi = 0
    /\ interp_calls = {} /\ levels = "none"

\* compute_dV up to the main loop (gwo.py:45-57)
GwoCall ==
    /\ pc = "idle"
    /\ Len(calls) < MaxCalls
    /\ \E o \in 1..Len(opts), d \in GwoInputs :
           LET s == MakeSeries(d)
               made == InitialPack(new_rng(opts[o].seed, rng), opts[o].pack_size,
                                   Len(s.months))
           IN  /\ series' = s
               /\ modes' = calc_modes(s)
               /\ cur' = o
               /\ rng' = made.rng
               /\ pack' = made.pack
               /\ scores' = Scores(made.pack, s)
    /\ it' = 0
    /\ pc' = "gwo_loop"
    /\ UNCHANGED <<simVars, opts, calls, selVars, greedyVars, dpVars, result>>

\* one iteration of the main loop (gwo.py:59-90)
GwoIteration ==
    /\ pc = "gwo_loop"
    /\ it < opts[cur].n_iter
    /\ LET moved == Iteration(pack, scores, rng, it, opts[cur].n_iter)
       IN  /\ pack' = moved.pack
           /\ rng' = moved.rng
           /\ scores' = Scores(moved.pack, series)
    /\ it' = it + 1
    /\ UNCHANGED <<simVars, opts, cur, calls, series, modes, pc, selVars, greedyVars, dpVars, result>>

\* the end of the loop and the return of the plan (gwo.py:92-95)
GwoReturn ==
    /\ pc = "gwo_loop"
    /\ it = opts[cur].n_iter
    /\ result' = BestPlan(pack, scores)
    /\ calls' = Append(calls, [opt |-> cur, pack_size |-> opts[cur].pack_size,
                               n_iter |-> opts[cur].n_iter, seed |-> opts[cur].seed,
                               series |-> series, plan |-> BestPlan(pack, scores)])
    /\ cur' = 0
    /\ pc' = "idle"
    /\ UNCHANGED <<simVars, opts, rng, pack, scores, it, series, modes, selVars, greedyVars, dpVars>>

GwoNext == GwoCall \/ GwoIteration \/ GwoReturn

SpecGWO == GwoInit /\ [][GwoNext]_vars

(***************************************************************************)
(* Properties of the Grey Wolf planner.                                    *)
(***************************************************************************)
SameCall(c1, c2) ==
    /\ c1.seed = c2.seed
    /\ c1.pack_size = c2.pack_size
    /\ c1.n_iter = c2.n_iter
    /\ c1.series = c2.series

\* C13: any two completed calls of compute_dV with the same seed, pack size,
\* iteration count and series returned the same plan, whichever instances
\* they ran on and whatever was called before them.
C13_Deterministic ==
    \A a \in 1..Len(calls), b \in 1..Len(calls) :
        SameCall(calls[a], calls[b]) => calls[a].plan = calls[b].plan

\* C13 witness: two calls with the same seed, pack size, iteration count and
\* series ran on different instances, through two iterations, and returned
\* a plan that moves the volume
C13_Witness ==
    /\ pc = "idle"
    /\ \E a \in 1..Len(calls), b \in 1..Len(calls) :
           /\ a < b
           /\ calls[a].opt # calls[b].opt
           /\ SameCall(calls[a], calls[b])
           /\ calls[a].n_iter = 2
           /\ calls[a].plan = calls[b].plan
           /\ \E t \in 1..Len(calls[a].plan) : calls[a].plan[t] # 0

\* the volume after a plan is added, delta by delta, to the volume vol
RECURSIVE Accumulate(_, _, _)
Accumulate(vol, plan, t) ==
    IF t > Len(plan) THEN vol ELSE Accumulate(Fl(vol + plan[t]), plan, t + 1)

\* C14 (as claimed): the plan returned by a call, accumulated from the NRL
\* volume, ends exactly at the NRL volume.
C14_EndsAtNRL ==
    \A a \in 1..Len(calls) : Accumulate(nrl_volume, calls[a].plan, 1) = nrl_volume

(***************************************************************************)
(* The strategy factory get (optimizers/__init__.py) and                   *)
(* ReservoirSimulator (core/reservoir_simulator.py)                        *)
(***************************************************************************)
\* get(name): the class of the object returned, or the exception raised
get(nm) ==
    IF nm = "greedy" THEN "GreedyOptimizer"
    ELSE IF nm = "dynamic" THEN "DynamicOptimizer"
    ELSE "ValueError"

\* the test of reservoir_simulator.py:40
lengths_match_Unchecked(s, m) == TRUE

lengths_match(s, m) == Len(s.months) = Len(m)

\* _recompute_fill_capacities: the running volume starts from start_volume
_recompute_fill_capacities(s, vols, idx_list, start_volume) ==
    RecomputeLoop(s, vols, idx_list, 1, start_volume)

\* _calc_fill_capacity_single
_calc_fill_capacity_single(s, d, idx, start_volume) ==
    LET q == PyGet(s.domestic_inflows, idx) - d
        vol_end == start_volume + d
        avg_head == ExactDiv(compute_headwater_mark(start_volume)
                                + compute_headwater_mark(vol_end), 2)
    IN  compute_domestic_capacity(q, avg_head - compute_lowwater_mark(q))

\* "n_ges = min(n_ges, self.levels.installed_capacity)"
clamped_Off(n_ges) == n_ges

clamped(n_ges) == Min(n_ges, installed_capacity)

\* "state.volume = end_volume"
advance_Stale(start_volume, end_volume) == start_volume

advance(start_volume, end_volume) == end_volume

\* the record of one month of the loop of run (reservoir_simulator.py:71-107),
\* d being the volume popped for the month; raw keeps the power of line 86,
\* before the clamp of line 87
MonthRecord(s, m, i, d, start_volume) ==
    LET q_byt == PyGet(s.domestic_inflows, i)
        mode == PyGet(m, i)
        end_volume == IF mode = DISCHARGE THEN start_volume - d ELSE start_volume + d
        start_head == compute_headwater_mark(start_volume)
        end_head == compute_headwater_mark(end_volume)
        avg_head == ExactDiv(start_head + end_head, 2)
        plant_inflow == IF mode = DISCHARGE THEN q_byt + d ELSE q_byt - d
        z_low == compute_lowwater_mark(plant_inflow)
        pressure == avg_head - z_low
    IN  [month |-> PyGet(s.months, i),
         mode |-> mode,
         q_byt |-> q_byt,
         dV |-> IF mode = DISCHARGE THEN d ELSE -d,
         start_volume |-> start_volume,
         end_volume |-> end_volume,
         n_gar |-> PyGet(s.guaranteed_capacity, i),
         raw |-> compute_domestic_capacity(plant_inflow, pressure),
         n_ges |-> clamped(compute_domestic_capacity(plant_inflow, pressure))]

(***************************************************************************)
(* Specification of the simulator: a caller asks the factory for an        *)
(* optimizer (or wants none), constructs a ReservoirSimulator and runs it; *)
(* run goes step by step through its sizing loops and its month loop.      *)
(***************************************************************************)
\* keys given to the factory
Names == {"greedy", "dynamic", "gwo", "pyomo", "annealing"}

\* months given to the simulator: the selector's three kinds, a month that
\* needs a deep discharge, and a month whose inflow alone gives more power
\* than the installed capacity
SimMonthData ==
    MonthData \cup {<<100 * StepV, 88000 * StepV * StepV>>,
                    <<300 * StepV, 100000 * StepV * StepV>>}

SimInputs == SeqsOf(SimMonthData, 2, MaxGreedyLen)

\* mode lists given to the constructor: the selector's list, the list
\* without its last month, the list with one month more
ModeLists(s) ==
    {calc_modes(s),
     SubSeq(calc_modes(s), 1, Len(calc_modes(s)) - 1),
     Append(calc_modes(s), FILL)}

\* the object bound to interp can be called as an interpolator: the default
\* one or the caller's; an optimizer object cannot
callable(obj) == obj \in {"default_interp", "caller_interp"}

SimInit ==
    /\ series \in {MakeSeries(d) : d \in SimInputs}
    /\ modes \in ModeLists(series)
    /\ name \in Names \cup {"none"}
    /\ how \in IF name = "none" THEN {"none", "interp"} ELSE {"positional", "keyword"}
    /\ pc = "caller"
    /\ optimizer = "none" /\ sim_interp = "none"
    /\ volume = 0 /\ records = <<>> /\ mi = 0
    /\ interp_calls = {} /\ levels = "none"
    /\ start_idx = -1 /\ rot_series = NoSeries /\ rot_modes = <<>> /\ warned = FALSE
    /\ disc_vol = <<>> /\ kd = 0 /\ dV = 0
    /\ fill_vol = <<>> /\ caps = <<>> /\ bi = 0
    /\ dv = <<>> /\ result = <<>>
    /\ step = 0 /\ tm = 0 /\ def_cost = <<>> /\ en_cost = <<>>
    /\ prev = <<>> /\ states = <<>>
    /\ opts = <<>> /\ cur = 0 /\ rng = 0 /\ pack = <<>> /\ scores = <<>>
    /\ it = 0 /\ calls = <<>>

\* the caller resolves the key (optimizers/__init__.py:52-76)
Get ==
    /\ pc = "caller"
    /\ name # "none"
    /\ IF get(name) = "ValueError"
       THEN pc' = "get:ValueError" /\ optimizer' = optimizer
       ELSE pc' = "resolved" /\ optimizer' = get(name)
    /\ UNCHANGED <<interp_calls, levels, name, how, sim_interp, volume, records, mi, series, modes,
                   selVars, greedyVars, dpVars, gwoVars, result>>

\* ReservoirSimulator(geom, levels, series, modes[, optimizer])
\* (reservoir_simulator.py:32-49): "positional" binds the optimizer to the
\* parameter interp (tests/test_core.py:31), "keyword" names a parameter
\* optimizer the constructor does not have (facade/analyzer.py:59-61),
\* "interp" injects an interpolator of the caller's, which records its calls
\* and computes as numpy.interp does; the NRL volume is interpolated by
\* numpy.interp itself (reservoir_simulator.py:49)
Construct ==
    /\ pc = "resolved" \/ (pc = "caller" /\ name = "none")
    /\ IF how = "keyword"
       THEN pc' = "__init__:TypeError" /\ UNCHANGED <<sim_interp, interp_calls>>
       ELSE IF ~ lengths_match(series, modes)
            THEN pc' = "__init__:ValueError" /\ UNCHANGED <<sim_interp, interp_calls>>
            ELSE /\ pc' = "constructed"
                 /\ sim_interp' = IF how = "positional" THEN optimizer
                                  ELSE IF how = "interp" THEN "caller_interp"
                                  ELSE "default_interp"
                 /\ interp_calls' = interp_calls \cup {<<"__init__", "numpy.interp">>}
    /\ UNCHANGED <<levels, name, optimizer, how, volume, records, mi, series, modes,
                   selVars, greedyVars, dpVars, gwoVars, result>>

\* run up to the first iteration of _calc_discharge_volumes
\* (reservoir_simulator.py:55-63, 117); a mode index past the end of the
\* series raises IndexError in the sizing helpers
RunStart ==
    /\ pc = "constructed"
    /\ volume' = nrl_volume
    /\ records' = <<>>
    /\ IF Len(modes) > Len(series.months)
       THEN pc' = "run:IndexError" /\ UNCHANGED <<disc_vol, kd, dV>>
       ELSE /\ pc' = "_calc_discharge_volumes"
            /\ disc_vol' = [p \in 1..Len(disc_idx(modes)) |-> 0]
            /\ kd' = 0
            /\ dV' = 0
    /\ UNCHANGED <<interp_calls, levels, name, optimizer, how, sim_interp, mi, series, modes, selVars,
                   fill_vol, caps, bi, dv, dpVars, gwoVars, result>>

\* one iteration of the "while True" loop of _calc_discharge_volumes
\* (reservoir_simulator.py:118-132)
SimDischargeStep ==
    /\ pc = "_calc_discharge_volumes"
    /\ kd < Len(disc_idx(modes))
    /\ LET idx == PyGet(disc_idx(modes), kd)
           n_gar == PyGet(series.guaranteed_capacity, idx)
           n_ges == DischargePower(series, idx, dV)
       IN  IF ReachesTarget(n_ges, n_gar)
           THEN /\ disc_vol' = PySet(disc_vol, kd, dV)
                /\ kd' = kd + 1
                /\ dV' = 0
           ELSE /\ dV < MaxDischargeSteps * StepV
                /\ dV' = dV + StepV
                /\ UNCHANGED <<disc_vol, kd>>
    /\ interp_calls' = interp_calls \cup {<<"_calc_discharge_volumes", "default_interp">>}
    /\ UNCHANGED <<name, optimizer, how, sim_interp, volume, records, mi, levels, series, modes, selVars,
                   pc, fill_vol, caps, bi, dv, dpVars, gwoVars, result>>

\* _calc_discharge_volumes returns; _initial_fill_distribution and the start
\* of _balance_fill_months (reservoir_simulator.py:66-67, 136-151)
SimBalanceStart ==
    /\ pc = "_calc_discharge_volumes"
    /\ kd = Len(disc_idx(modes))
    /\ LET vols == _initial_fill(SumSeq(disc_vol), fill_idx(modes))
       IN  /\ fill_vol' = vols
           /\ caps' = IF fill_idx(modes) = <<>> THEN <<>>
                      ELSE _recompute_fill_capacities(series, vols, fill_idx(modes), volume)
    /\ bi' = 0
    /\ pc' = "_balance_fill_months"
    /\ interp_calls' = IF fill_idx(modes) = <<>> THEN interp_calls
                       ELSE interp_calls \cup {<<"_recompute_fill_capacities", "default_interp">>}
    /\ UNCHANGED <<name, optimizer, how, sim_interp, volume, records, mi, levels, series, modes, selVars,
                   disc_vol, kd, dV, dv, dpVars, gwoVars, result>>

\* one test of the "while" condition of _balance_fill_months
\* (reservoir_simulator.py:152-160)
SimBalanceStep ==
    /\ pc = "_balance_fill_months"
    /\ bi < Len(fill_idx(modes))
    /\ LET idx == PyGet(fill_idx(modes), bi)
           n_gar == PyGet(series.guaranteed_capacity, idx)
       IN  IF ~ReachesTarget(PyGet(caps, bi), n_gar) /\ PyGet(fill_vol, bi) >= StepV
           THEN LET j == argmax(caps)
                    v1 == PySet(fill_vol, j, PyGet(fill_vol, j) + StepV)
                    v2 == PySet(v1, bi, PyGet(v1, bi) - StepV)
                    c1 == PySet(caps, bi,
                                _calc_fill_capacity_single(series, PyGet(v2, bi), idx, volume))
                    c2 == PySet(c1, j,
                                _calc_fill_capacity_single(series, PyGet(v2, j),
                                                           PyGet(fill_idx(modes), j), volume))
                IN  /\ fill_vol' = v2
                    /\ caps' = c2
                    /\ bi' = bi
                    /\ interp_calls' = interp_calls
                                          \cup {<<"_calc_fill_capacity_single", "default_interp">>}
           ELSE /\ bi' = bi + 1
                /\ UNCHANGED <<fill_vol, caps, interp_calls>>
    /\ UNCHANGED <<name, optimizer, how, sim_interp, volume, records, mi, levels, series, modes, selVars,
                   pc, disc_vol, kd, dV, dv, dpVars, gwoVars, result>>

\* _balance_fill_months returns; the month loop starts
\* (reservoir_simulator.py:67-70)
SimLoopStart ==
    /\ pc = "_balance_fill_months"
    /\ bi = Len(fill_idx(modes))
    /\ pc' = "month_loop"
    /\ mi' = 0
    /\ UNCHANGED <<interp_calls, levels, name, optimizer, how, sim_interp, volume, records, series, modes,
                   selVars, greedyVars, dpVars, gwoVars, result>>

\* one month of the loop of run (reservoir_simulator.py:70-108): the volume
\* is popped, then self.interp is called (a TypeError when it is not an
\* interpolator), the record is appended and the state advances
SimMonth ==
    /\ pc = "month_loop"
    /\ mi < Len(series.months)
    /\ IF mi >= Len(modes)
       THEN pc' = "run:IndexError"
            /\ UNCHANGED <<disc_vol, fill_vol, volume, records, mi, interp_calls>>
       ELSE LET mode == PyGet(modes, mi)
                d == IF mode = DISCHARGE THEN Head(disc_vol) ELSE Head(fill_vol)
                rec == MonthRecord(series, modes, mi, d, volume)
            IN  /\ disc_vol' = IF mode = DISCHARGE THEN Tail(disc_vol) ELSE disc_vol
                /\ fill_vol' = IF mode = DISCHARGE THEN fill_vol ELSE Tail(fill_vol)
                /\ IF ~ callable(sim_interp)
                   THEN pc' = "run:TypeError" /\ UNCHANGED <<volume, records, mi, interp_calls>>
                   ELSE /\ interp_calls' = interp_calls \cup {<<"run", sim_interp>>}
                        /\ records' = Append(records, rec)
                        /\ volume' = advance(rec.start_volume, rec.end_volume)
                        /\ mi' = mi + 1
                        /\ pc' = pc
    /\ UNCHANGED <<levels, name, optimizer, how, sim_interp, series, modes, selVars,
                   kd, dV, caps, bi, dv, dpVars, gwoVars, result>>

\* the loop ends and run returns the table of records
\* (reservoir_simulator.py:109-112)
SimReturn ==
    /\ pc = "month_loop"
    /\ mi = Len(series.months)
    /\ pc' = "sim_returned"
    /\ UNCHANGED <<simVars, series, modes, selVars, greedyVars, dpVars, gwoVars, result>>

SimNext ==
    \/ Get
    \/ Construct
    \/ RunStart
    \/ SimDischargeStep
    \/ SimBalanceStart
    \/ SimBalanceStep
    \/ SimLoopStart
    \/ SimMonth
    \/ SimReturn

SpecSim == SimInit /\ [][SimNext]_vars

(***************************************************************************)
(* Properties of the simulator and the factory.                            *)
(***************************************************************************)
\* a call that returns no plan (it raises, or its loop never ends)
NoPlan == <<"no plan">>

\* _calc_discharge for one month (greedy.py:90-104): the volume the
\* "while True" loop stops at, from the volume d on; -1 when it passes
\* MaxDischargeSteps steps
RECURSIVE DischargeFor(_, _, _)
DischargeFor(s, idx, d) ==
    IF ReachesTarget(DischargePower(s, idx, d), PyGet(s.guaranteed_capacity, idx)) THEN d
    ELSE IF d >= MaxDischargeSteps * StepV THEN -1
    ELSE DischargeFor(s, idx, d + StepV)

_calc_discharge(s, d_idx) == [k \in 1..Len(d_idx) |-> DischargeFor(s, d_idx[k], 0)]

\* _balance_fill (greedy.py:113-130) from month f_idx[i] on; NoPlan when
\* a transfer leaves the volumes as they were, so that the loop never ends
RECURSIVE BalanceLoop(_, _, _, _, _)
BalanceLoop(s, f_idx, vols, cps, i) ==
    IF i >= Len(f_idx) THEN vols
    ELSE IF ~ReachesTarget(PyGet(cps, i), PyGet(s.guaranteed_capacity, PyGet(f_idx, i)))
            /\ PyGet(vols, i) >= StepV
         THEN LET j == argmax(cps)
                  v1 == PySet(vols, j, PyGet(vols, j) + StepV)
                  v2 == PySet(v1, i, PyGet(v1, i) - StepV)
                  c1 == PySet(cps, i, _cap_single(s, PyGet(v2, i), PyGet(f_idx, i)))
                  c2 == PySet(c1, j, _cap_single(s, PyGet(v2, j), PyGet(f_idx, j)))
              IN  IF j = i THEN NoPlan ELSE BalanceLoop(s, f_idx, v2, c2, i)
         ELSE BalanceLoop(s, f_idx, vols, cps, i + 1)

_balance_fill(s, f_idx, vols) ==
    IF f_idx = <<>> THEN <<>>
    ELSE BalanceLoop(s, f_idx, vols, _recompute_caps(s, vols, f_idx), 0)

\* GreedyOptimizer.compute_dV (greedy.py:60-82) as one function
greedy_compute_dV(s, m) ==
    LET dvol == _calc_discharge(s, disc_idx(m))
    IN  IF \E k \in 1..Len(dvol) : dvol[k] < 0 THEN NoPlan
        ELSE LET fvol == _balance_fill(s, fill_idx(m),
                                       _initial_fill(SumSeq(dvol), fill_idx(m)))
             IN  IF fvol = NoPlan THEN NoPlan
                 ELSE IF ~ClosureOK(Assemble(m, dvol, fvol)) THEN NoPlan
                 ELSE Assemble(m, dvol, fvol)

\* the step of DynamicOptimizer() (dynamic.py:63: step = 0.1)
DefaultStep == 10 * StepV

\* the plan the optimizer of class o computes for the inputs
PlanOf(o, s, m) ==
    IF o = "GreedyOptimizer" THEN greedy_compute_dV(s, m)
    ELSE dp_compute_dV(s, m, DefaultStep)

\* the deltas applied month by month: end volume minus start volume
Applied(recs) == [i \in 1..Len(recs) |-> recs[i].end_volume - recs[i].start_volume]

\* C15 (as claimed): when run returns, the deltas it applied are, month by
\* month, the plan that the optimizer chosen (whichever of the factory's
\* optimizers it is) computes for the same series and modes: the simulator
\* sized nothing itself.
C15_ReplaysOptimizerPlan ==
    pc = "sim_returned" =>
        \E o \in {"GreedyOptimizer", "DynamicOptimizer"} :
            Applied(records) = PlanOf(o, series, modes)

\* C16: the generated power of every record, at any point of the run, is at
\* most the installed capacity.
C16_PowerWithinInstalled ==
    \A i \in 1..Len(records) : records[i].n_ges <= installed_capacity

\* C16 witness: run returned a record of a DISCHARGE month and one of a FILL
\* month, with a nonzero volume, whose power before the clamp exceeded the
\* installed capacity
C16_Witness ==
    /\ pc = "sim_returned"
    /\ \E i \in 1..Len(records), j \in 1..Len(records) :
           /\ records[i].mode = DISCHARGE /\ records[j].mode = FILL
           /\ records[i].dV # 0
           /\ records[j].raw > installed_capacity
           /\ records[j].n_ges = installed_capacity

\* C17: at any point of the run there is one record per month done, in the
\* order of the series; the first starts at the NRL volume and each next one
\* starts at the end volume of the one before; state.volume is the end volume
\* of the last record.
C17_VolumeChain ==
    pc \in {"month_loop", "sim_returned"} =>
        /\ Len(records) = mi
        /\ \A i \in 1..Len(records) : records[i].month = series.months[i]
        /\ Len(records) >= 1 => records[1].start_volume = nrl_volume
        /\ \A i \in 1..(Len(records) - 1) :
               records[i].end_volume = records[i + 1].start_volume
        /\ Len(records) >= 1 => volume = records[Len(records)].end_volume

\* C17 witness: run returned three records, the first two of which moved
\* the volume
C17_Witness ==
    /\ pc = "sim_returned"
    /\ Len(records) = 3
    /\ records[1].end_volume # records[1].start_volume
    /\ records[2].end_volume # records[2].start_volume

\* C18 (as claimed): in every record the end volume is the start volume plus
\* the reported delta, a negative delta being a discharge and a positive one
\* a fill.
C18_EndIsStartPlusDelta ==
    \A i \in 1..Len(records) :
        /\ records[i].end_volume = records[i].start_volume + records[i].dV
        /\ records[i].mode = DISCHARGE => records[i].dV <= 0
        /\ records[i].mode = FILL => records[i].dV >= 0

\* C19: with a mode list whose length differs from the number of months,
\* the constructor taking its arguments raises ValueError; nothing of run
\* is ever reached and no record is ever made.
C19_MismatchRaises ==
    Len(series.months) # Len(modes) =>
        /\ records = <<>>
        /\ pc \in {"caller", "resolved", "get:ValueError",
                   "__init__:TypeError", "__init__:ValueError"}
        /\ pc = "__init__:TypeError" => how = "keyword"

\* C19 witness: the constructor, called with its four arguments, raised
\* ValueError for a mode list that is one month short
C19_Witness ==
    /\ pc = "__init__:ValueError"
    /\ Len(modes) = Len(series.months) - 1
    /\ how = "none"

\* keys of the four strategies of the claim
StrategyKeys == {"greedy", "dynamic", "gwo", "pyomo"}

\* C20 (as claimed): once the factory was called, a key of the greedy,
\* dynamic-programming, grey-wolf or solver-backed strategy gave an
\* optimizer, and any other key gave ValueError.
C20_FactoryResolves ==
    pc \in {"resolved", "get:ValueError"} =>
        IF name \in StrategyKeys
        THEN pc = "resolved" /\ optimizer \in {"GreedyOptimizer", "DynamicOptimizer",
                                               "GreyWolfOptimizer", "PyomoOptimizer"}
        ELSE pc = "get:ValueError"

(***************************************************************************)
(* StaticLevels (domain/static_levels.py) and the first computations made  *)
(* on it                                                                   *)
(***************************************************************************)
\* StaticLevels(nrl, dead, installed_capacity): the __init__ the dataclass
\* decorator generates stores the three fields
StaticLevels(n, d, c) == [nrl |-> n, dead |-> d, installed_capacity |-> c]

\* the primary classification of calc_modes (month_selector.py:85-95) on
\* the levels lv, from position p on
RECURSIVE PrimaryLoopAt(_, _, _, _)
PrimaryLoopAt(lv, s, p, acc) ==
    IF p > Min(Len(s.domestic_inflows), Len(s.guaranteed_capacity)) THEN acc
    ELSE LET q_byt == s.domestic_inflows[p]
             head == lv.nrl - compute_lowwater_mark(q_byt)
             n_byt == compute_domestic_capacity(q_byt, head)
         IN  PrimaryLoopAt(lv, s, p + 1,
                 Append(acc, IF n_byt < s.guaranteed_capacity[p] THEN DISCHARGE ELSE FILL))

\* MonthSelector(series, geom, lv).calc_modes()
calc_modes_at(lv, s) == EdgeLast(EdgeFirst(SmoothLoop(PrimaryLoopAt(lv, s, 1, <<>>), 1)))

\* "nrl > dead >= 0, installed_capacity > 0"
ValidLevels(lv) == lv.nrl > lv.dead /\ lv.dead >= 0 /\ lv.installed_capacity > 0

\* values given to the constructor: the levels of the model, the two marks
\* swapped or equal, a negative dead level, a zero and a negative capacity
LevelChoices ==
    {StaticLevels(n, d, c) : n \in {nrl, dead}, d \in {dead, nrl, -StepV},
                             c \in {installed_capacity, 0, -installed_capacity}}

(***************************************************************************)
(* Specification of the levels: a caller constructs StaticLevels, then a   *)
(* MonthSelector classifies the months on it, then a ReservoirSimulator is *)
(* constructed on it and run starts.                                       *)
(***************************************************************************)
LevelsInit ==
    /\ series \in {MakeSeries(d) : d \in SimInputs}
    /\ modes = <<>>
    /\ pc = "no_levels"
    /\ levels = "none" /\ interp_calls = {}
    /\ name = "none" /\ optimizer = "none" /\ how = "none" /\ sim_interp = "none"
    /\ volume = 0 /\ records = <<>> /\ mi = 0
    /\ start_idx = -1 /\ rot_series = NoSeries /\ rot_modes = <<>> /\ warned = FALSE
    /\ disc_vol = <<>> /\ kd = 0 /\ dV = 0
    /\ fill_vol = <<>> /\ caps = <<>> /\ bi = 0
    /\ dv = <<>> /\ result = <<>>
    /\ step = 0 /\ tm = 0 /\ def_cost = <<>> /\ en_cost = <<>>
    /\ prev = <<>> /\ states = <<>>
    /\ opts = <<>> /\ cur = 0 /\ rng = 0 /\ pack = <<>> /\ scores = <<>>
    /\ it = 0 /\ calls = <<>>

\* StaticLevels(...) (static_levels.py:5-10)
MakeLevels ==
    /\ pc = "no_levels"
    /\ levels' \in LevelChoices
    /\ pc' = "levels"
    /\ UNCHANGED <<name, optimizer, how, sim_interp, volume, records, mi, interp_calls,
                   series, modes, selVars, greedyVars, dpVars, gwoVars, result>>

\* MonthSelector(series, geom, levels).calc_modes() (month_selector.py:60-121)
LevelsCalcModes ==
    /\ pc = "levels"
    /\ modes' = calc_modes_at(levels, series)
    /\ pc' = "modes"
    /\ UNCHANGED <<simVars, series, selVars, greedyVars, dpVars, gwoVars, result>>

\* ReservoirSimulator(geom, levels, series, modes) and the first statement
\* of run (reservoir_simulator.py:40-55)
LevelsSimulate ==
    /\ pc = "modes"
    /\ sim_interp' = "default_interp"
    /\ volume' = interp(levels.nrl, headwater_marks, average_volumes)
    /\ pc' = "simulating"
    /\ UNCHANGED <<name, optimizer, how, records, mi, interp_calls, levels,
                   series, modes, selVars, greedyVars, dpVars, gwoVars, result>>

LevelsNext == MakeLevels \/ LevelsCalcModes \/ LevelsSimulate

SpecLevels == LevelsInit /\ [][LevelsNext]_vars

\* C21 (as claimed): a computation of the selector or of the simulator only
\* ever runs on levels with nrl > dead >= 0 and installed_capacity > 0,
\* since the construction of any other StaticLevels fails.
C21_InvalidLevelsRejected ==
    pc \in {"modes", "simulating"} => ValidLevels(levels)

(***************************************************************************)
(* Termination of the Greedy planner.  compute_dV runs in one thread with  *)
(* nothing to wait for, so a step of it that can be taken is taken.        *)
(***************************************************************************)
FairSpecGreedy == SpecGreedy /\ WF_vars(GreedyNext)

\* the "while True" loop of _calc_discharge is at the bound of the model
\* without having reached the target of its month
DischargeAtBound ==
    /\ pc = "_calc_discharge"
    /\ kd < Len(disc_idx(modes))
    /\ dV = MaxDischargeSteps * StepV
    /\ ~ReachesTarget(DischargePower(series, PyGet(disc_idx(modes), kd), dV),
                      PyGet(series.guaranteed_capacity, PyGet(disc_idx(modes), kd)))

\* the bound cuts only loops that never end: the installed capacity, which
\* min() never lets the power exceed, is below the target of the month
BoundCutsOnlyEndlessLoops ==
    DischargeAtBound =>
        ~ReachesTarget(installed_capacity,
                       PyGet(series.guaranteed_capacity, PyGet(disc_idx(modes), kd)))

\* C22 (as claimed): phase 1 terminates: once compute_dV is sizing the
\* discharge volumes, every DISCHARGE month reaches 1.05 x its guaranteed
\* power after finitely many 0.01 km3 steps and the planner goes on to the
\* balancing of the FILL months.
C22_Phase1Terminates == pc = "_calc_discharge" ~> pc = "_balance_fill"

\* C23 (as claimed): phase 2 terminates: once compute_dV is balancing the
\* FILL months, every transfer loop ends after finitely many transfers and
\* compute_dV ends, also when the deficient month is the month of the
\* highest capacity.
C23_Phase2Terminates == pc = "_balance_fill" ~> pc \in {"returned", "AssertionError"}

\* C24: the sized discharge volumes and the fill shares are never negative,
\* so in every plan compute_dV returns each DISCHARGE month has a delta <= 0
\* and each FILL month a delta >= 0.
C24_PlanSigns ==
    /\ \A p \in 1..Len(disc_vol) : disc_vol[p] >= 0
    /\ \A p \in 1..Len(fill_vol) : fill_vol[p] >= 0
    /\ pc = "returned" =>
          \A p \in 1..Len(result) :
              IF modes[p] = DISCHARGE THEN result[p] <= 0 ELSE result[p] >= 0

\* C24 witness: a plan was returned in which balancing took a FILL month's
\* share down to less than one step while another FILL month holds more than
\* the even share, and a DISCHARGE month releases volume
C24_Witness ==
    /\ pc = "returned"
    /\ \E p \in 1..Len(result) : modes[p] = DISCHARGE /\ result[p] < 0
    /\ \E p, r \in 1..Len(result) :
          /\ modes[p] = FILL /\ modes[r] = FILL
          /\ result[p] < StepV
          /\ result[r] > result[p] + StepV

\* the capacities the planner keeps while balancing are those of a full pass
\* of _recompute_caps over the current fill volumes
PlannerCapsAreFullPass ==
    pc = "_balance_fill" /\ fill_idx(modes) # <<>> =>
        caps = _recompute_caps(series, fill_vol, fill_idx(modes))

\* C25 (as claimed): during fill balancing the capacities kept by updating
\* only the two months of a transfer are the capacities a full recomputation
\* over all FILL months gives for the current volumes.
C25_TwoMonthUpdateIsFullPass ==
    pc = "_balance_fill_months" /\ fill_idx(modes) # <<>> =>
        caps = _recompute_fill_capacities(series, fill_vol, fill_idx(modes), volume)

\* C26: every step of the trajectory compute_dV reconstructs is an admissible
\* transition: its delta is <= 0 in a DISCHARGE month and >= 0 in a FILL
\* month, and both its endpoints are cells of the grid, with volumes between
\* the dead-level volume and the NRL volume.
C26_TrajectoryAdmissible ==
    pc = "dp_returned" =>
        /\ Len(states) = Len(modes) + 1
        /\ \A t \in 1..Len(states) :
              /\ states[t] \in 0..(Len(grid(step)) - 1)
              /\ PyGet(grid(step), states[t]) >= dead_volume
              /\ PyGet(grid(step), states[t]) <= nrl_volume
        /\ \A t \in 1..Len(modes) :
              /\ result[t] = PyGet(grid(step), states[t + 1]) - PyGet(grid(step), states[t])
              /\ modes[t] = DISCHARGE => result[t] <= 0
              /\ modes[t] = FILL => result[t] >= 0

\* C26 witness: a returned trajectory on the grid whose step does not divide
\* the range of volumes, which releases volume in a DISCHARGE month, stores
\* volume in a FILL month and ends in the clipped last cell
C26_Witness ==
    /\ pc = "dp_returned"
    /\ step = 7 * StepV
    /\ \E t \in 1..Len(modes) : modes[t] = DISCHARGE /\ result[t] < 0
    /\ \E t \in 1..Len(modes) : modes[t] = FILL /\ result[t] > 0
    /\ PyGet(grid(step), states[Len(states)]) = nrl_volume

\* cell (t + 1, j) of the tables is consistent: it has a finite cumulative
\* deficit exactly when its predecessor is set, and then the predecessor has
\* a finite cumulative deficit at month t, the transition from it passes the
\* filters and the stored deficit is the predecessor's plus the deficit of
\* that transition
CellConsistent(t, j) ==
    LET i == PyGet(PyGet(prev, t), j)
        cost == PyGet(PyGet(def_cost, t + 1), j)
        v == PyGet(grid(step), i)
        vn == PyGet(grid(step), j)
    IN  /\ cost < INF <=> i # -1
        /\ i # -1 =>
              /\ i \in 0..(Len(grid(step)) - 1)
              /\ PyGet(PyGet(def_cost, t), i) < INF
              /\ Admissible(PyGet(modes, t), vn - v)
              /\ cost = PyGet(PyGet(def_cost, t), i)
                          + MonthDeficit(PyGet(series.guaranteed_capacity, t),
                                         MonthPower(PyGet(series.domestic_inflows, t), v, vn))

\* C27: the cost tables and the predecessor table stay consistent: for every
\* month t and state j, the state has a finite cumulative deficit exactly
\* when its predecessor is set, the predecessor is reachable at month t, and
\* the stored deficit is the predecessor's stored deficit plus the deficit
\* of that one transition; at month 0 only the start state is reachable, and
\* the months not yet processed hold infinite costs and no predecessor.
C27_TablesConsistent ==
    pc \in {"bellman", "dp_returned"} =>
        /\ \A j \in 0..(Len(grid(step)) - 1) :
              PyGet(PyGet(def_cost, 0), j) < INF <=> j = dp_start_idx(step)
        /\ \A t \in 0..(Len(series.months) - 1) :
              \A j \in 0..(Len(grid(step)) - 1) :
                  /\ CellConsistent(t, j)
                  /\ t >= tm => PyGet(PyGet(def_cost, t + 1), j) = INF

\* C27 witness: the Bellman loop has ended; a processed month holds an
\* unreachable state, and a processed month holds two reachable states of
\* different cumulative deficits
C27_Witness ==
    /\ pc = "bellman"
    /\ tm = Len(series.months)
    /\ \E t \in 2..(tm + 1) : \E j \in 1..Len(grid(step)) : def_cost[t][j] = INF
    /\ \E t \in 2..(tm + 1) : \E j, k \in 1..Len(grid(step)) :
          def_cost[t][j] < def_cost[t][k] /\ def_cost[t][k] < INF

\* C28: after the initialisation and after every iteration of the Grey Wolf
\* planner, every wolf of the pack has all its volumes within [dead-level
\* volume, NRL volume] and its last-month volume equal to the NRL volume.
C28_PackWithinBounds ==
    pc = "gwo_loop" =>
        /\ Len(pack) = opts[cur].pack_size
        /\ \A i \in 1..Len(pack) :
              /\ Len(pack[i]) = Len(series.months)
              /\ \A j \in 1..Len(pack[i]) :
                    pack[i][j] >= dead_volume /\ pack[i][j] <= nrl_volume
              /\ PyGet(pack[i], -1) = nrl_volume

\* C28 witness: after the last of two iterations a wolf holds, in a month
\* other than the last, a volume at the NRL volume, the upper bound of the
\* clipping, next to a volume strictly inside the bounds
C28_Witness ==
    /\ pc = "gwo_loop"
    /\ it = 2
    /\ \E i \in 1..Len(pack) : \E j, k \in 1..(Len(pack[i]) - 1) :
          /\ pack[i][j] = nrl_volume
          /\ pack[i][k] > dead_volume /\ pack[i][k] < nrl_volume

\* the loops of one iteration with the three attractors held as the rows la,
\* lb, lc the leaders had when the iteration ranked the pack
RECURSIVE FixedLoop(_, _, _, _, _, _, _, _)
FixedLoop(pk, g, la, lb, lc, a_num, a_den, c) ==
    LET n_months == Len(pk[1])
        i == c \div n_months
        j == c % n_months
        x == PyGet(PyGet(pk, i), j)
        p1 == Pull(g, PyGet(la, j), x, a_num, a_den)
        p2 == Pull(p1.rng, PyGet(lb, j), x, a_num, a_den)
        p3 == Pull(p2.rng, PyGet(lc, j), x, a_num, a_den)
        moved == PySet(PyGet(pk, i), j, FlDiv(Fl(Fl(p1.X + p2.X) + p3.X), 3))
        clipped == [q \in 1..n_months |-> clip(moved[q], dead_volume, nrl_volume)]
        row == IF j = n_months - 1 THEN PySet(clipped, -1, nrl_volume) ELSE moved
    IN  IF c >= Len(pk) * n_months THEN pk
        ELSE FixedLoop(PySet(pk, i, row), p3.rng, la, lb, lc, a_num, a_den, c + 1)

\* the pack one iteration leaves when every wolf is pulled toward the
\* positions the top three wolves had at the start of the iteration
FixedAttractors(pk, sc, g, iter, n_iter) ==
    LET order == argsort(sc)
        a_den == Max(1, n_iter - 1)
    IN  FixedLoop(pk, g, PyGet(pk, PyGet(order, 0)), PyGet(pk, PyGet(order, 1)),
                  PyGet(pk, PyGet(order, 2)), 2 * a_den - 2 * iter, a_den, 0)

\* C29 (as claimed): within one iteration every wolf is pulled toward the
\* same three attractor positions, those of the top three wolves as ranked
\* at the start of the iteration: the pack an iteration leaves is the pack
\* computed with the attractors held fixed.
C29_AttractorsFixed ==
    [][pc = "gwo_loop" /\ it' = it + 1 =>
          <<it, pack'>> = <<it, FixedAttractors(pack, scores, rng, it, opts[cur].n_iter)>>]_vars

\* the places of run and of its sizing and balancing helpers that interpolate
RunPlaces ==
    {"run", "_calc_discharge_volumes", "_recompute_fill_capacities",
     "_calc_fill_capacity_single"}

\* C30 (as claimed): every interpolation a simulator performs in the month
\* loop and in its discharge-sizing and fill-balancing helpers goes through
\* the interpolator bound at construction: the caller's when one was
\* injected, the default one only when none was.
C30_InjectedInterpolatorEverywhere ==
    callable(sim_interp) =>
        \A c \in interp_calls : c[1] \in RunPlaces => c[2] = sim_interp

=============================================================================
